---------------------------- MODULE Spec2Model ----------------------------
(***************************************************************************)
(* Model of mnshah0101/concurrent_ds_cpp:                                  *)
(*   src/concurrent_ds.cpp  ApproximateConcurrentCounter (vector of        *)
(*                          atomics), ApproximateConcurrentCounterArray,   *)
(*                          SharedCounter and the threads of main;         *)
(*   src/hand_lock_ll.cpp   List (insert / traverse / ~List) over node_t.  *)
(*                                                                         *)
(* Every atomic access in concurrent_ds.cpp is memory_order_relaxed.  A    *)
(* relaxed read-modify-write acts on the newest value of its location; a   *)
(* relaxed load returns any value of the location's modification order     *)
(* that is not older than what the loading thread has already seen of the  *)
(* location (coherence) or what happens-before the load (its own writes,   *)
(* the writes of a thread it has joined).  Counters only grow by one, so   *)
(* the modification order of a counter whose newest value is n is 0..n,    *)
(* and a thread's knowledge of a location is the newest value it has seen. *)
(***************************************************************************)
EXTENDS Integers, Sequences, FiniteSets, TLC

\* ------------------------------------------------------------------ bounds
\* Largest number of workers of one run of main (NUM_THREADS is 4 there).
NumWorkers == 2
\* Largest target_count handed to a worker (COUNT_TARGET is 1000000).
MaxTarget == 2
\* Largest `threads` handed to a constructor.
MaxThreadsArg == 17

\* Nodes the heap can hold: operator new fails once they are all in use.
MaxNodes == 4

\* ApproximateConcurrentCounterArray::MAX_THREADS
MAX_THREADS == 16

\* hand_lock_ll.cpp: the node_t objects operator new can return, the keys
\* handed to insert, and the threads that call the List: main, which makes
\* the first insert, starts the others, joins them and destroys the list,
\* two threads that insert and one that traverses.
Nodes == 1 .. MaxNodes
Keys == {5, 6}
Appenders == {"a1", "a2"}
Traversers == {"t1"}
ListThreads == {"main"} \cup Appenders \cup Traversers

\* Threads that read the counters: main (which also joins the workers) and a
\* second reading thread.
Readers == {"main", "observer"}

VARIABLES
    \* ---- ApproximateConcurrentCounter / ...Array (concurrent_ds.cpp)
    variant,          \* "none" | "vector" | "array": the class constructed
    ctor,             \* "pending" | "ok" | "invalid_argument"
    num_threads,      \* the member num_threads
    thread_counters,  \* slot -> newest value of the atomic
    \* ---- SharedCounter
    counter,          \* newest value of the atomic counter
    \* ---- counter_thread / counter_thread_array / shared_counter_thread
    target,           \* worker -> its target_count
    wi,               \* worker -> its loop variable i
    wstate,           \* worker -> "running" | "exited" | "joined"
    wseen,            \* worker -> slot -> newest value the worker has seen
    wcseen,           \* worker -> newest value of `counter` it has seen
    \* ---- the reading threads
    active,           \* the readers that run
    rseen,            \* reader -> slot -> newest value the reader has seen
    rcseen,           \* reader -> newest value of `counter` it has seen
    rpc,              \* reader -> "idle" | "sum" | "slot" | "slot_ret" | "count_ret"
    ri,               \* reader -> loop variable i of get_approximate_count,
                      \*           or the thread_id of get_thread_count
    rtotal,           \* reader -> local total of get_approximate_count, or
                      \*           the value get_thread_count / get_count loaded
    \* ---- history, read by the properties only
    call,             \* reader -> what held when its read in progress began
    prevSlot          \* reader -> its last get_thread_count that returned:
                      \*           the slot and the value (NoSlotRead: none yet)

VARIABLES
    \* ---- a second bank, an ApproximateConcurrentCounterArray driven beside
    \*      the ApproximateConcurrentCounter of thread_counters / num_threads
    array_counters,   \* slot -> value of its member thread_counters
    array_threads,    \* its member num_threads
    ncalls,           \* calls made on the two banks so far
    ret_vector,       \* what the last read of the vector bank returned
    ret_array         \* what the same read of the array bank returned

pairVars == <<array_counters, array_threads, ncalls, ret_vector, ret_array>>

VARIABLES
    \* ---- history of the totals, read by the properties only
    recording,        \* whether the totals returned are kept (lastTotal, startLast)
    lastTotal,        \* reader -> the largest total it has returned
    startLast,        \* reader -> the largest total any reader had returned
                      \*           when its get_approximate_count in progress began
    sums,             \* reader -> the sums of all slots there have been since
                      \*           its get_approximate_count in progress began
    allSums           \* the sums of all slots there have been since construction

totalVars == <<recording, lastTotal, startLast, sums, allSums>>

bankVars == <<variant, ctor, num_threads, thread_counters>>
sharedVars == <<counter>>
workerVars == <<target, wi, wstate, wseen, wcseen>>
readerVars == <<active, rseen, rcseen, rpc, ri, rtotal>>
ghostVars == <<call, prevSlot>>
counterVars ==
    <<bankVars, sharedVars, workerVars, readerVars, ghostVars, pairVars,
      totalVars>>

VARIABLES
    \* ---- List and node_t (hand_lock_ll.cpp); nullptr is 0
    head,             \* List::head
    tail,             \* List::tail
    key,              \* node -> node_t::key
    next,             \* node -> node_t::next
    n_lock,           \* node -> "free", or the thread whose lock() took it
    nalloc,           \* nodes operator new has returned: 1 .. nalloc
    freed,            \* nodes ~List has deleted
    \* ---- the threads of the list
    phase,            \* "single" | "started" | "joined" | "destroyed"
    pc,               \* thread -> where it stands in insert / traverse
    karg,             \* thread -> the key of its insert
    new_node,         \* thread -> insert's new_node
    locked,           \* thread -> the node whose n_lock its lock() took
    tl,               \* thread -> the value of tail read for tail->next
    old_tail,         \* thread -> insert's old_tail
    curr,             \* thread -> traverse's curr
    result,           \* thread -> how its last insert ended:
                      \*           "none" | "0" | "-1" | "bad_alloc"
    \* ---- history, read by the properties only
    visited,          \* thread -> the keys its traverse has printed
    appended,         \* the keys of the inserts that returned 0, in order
    succeeded,        \* the nodes of the inserts that returned 0
    ndeleted          \* how many times ~List has called delete

listMem == <<head, tail, key, next, n_lock, nalloc, freed>>
listThr == <<phase, pc, karg, new_node, locked, tl, old_tail, curr, result>>
listGhost == <<visited, appended, succeeded, ndeleted>>
listVars == <<listMem, listThr, listGhost>>

vars == <<counterVars, listVars>>

\* ------------------------------------------------------------- helpers
Slots == 0 .. (num_threads - 1)
\* main starts one worker per slot: thread i runs with thread_id i.
Workers == DOMAIN wstate

RECURSIVE SumTo(_, _)
\* f[0] + ... + f[n-1]
SumTo(f, n) == IF n = 0 THEN 0 ELSE f[n - 1] + SumTo(f, n - 1)

Max(a, b) == IF a >= b THEN a ELSE b

\* startTrue: the increments performed when the read began (of the slot, or
\* of all slots); startSeen: those of them the reader had seen or that
\* happened-before its read.
NoCall == [startTrue |-> 0, startSeen |-> 0]
NoSlotRead == [slot |-> -1, val |-> 0]

\* The values load(std::memory_order_relaxed) may return to a thread that
\* has seen `seen` of a counter whose newest value is `newest`.
LoadRelaxed(seen, newest) == seen .. newest

\* fetch_add(1, std::memory_order_relaxed) on slot s: one atomic step on the
\* newest value.
FetchAdd(counters, s) == [counters EXCEPT ![s] = @ + 1]

\* No total has been returned; the sum of the slots has been 0 only.  The
\* totals returned are kept when `rec` says so.
NoTotals(rec) ==
    /\ recording = rec
    /\ lastTotal = [r \in Readers |-> 0]
    /\ startLast = [r \in Readers |-> 0]
    /\ sums = [r \in Readers |-> {}]
    /\ allSums = {0}

\* The largest total any reader has returned.
LastReturned ==
    CHOOSE m \in {lastTotal[r] : r \in Readers} :
        \A r \in Readers : lastTotal[r] <= m

\* No second bank is driven beside the first.
NoPair ==
    /\ array_counters = <<>>
    /\ array_threads = 0
    /\ ncalls = 0
    /\ ret_vector = 0
    /\ ret_array = 0

\* node_t::key has no initializer: until line 26 assigns it, it holds an
\* indeterminate value, written here as a value no insert is ever handed.
\* (No step of the model reads a key before line 26 has assigned it.)
IndeterminateKey == 0 - 1

\* List list{}: head and tail nullptr, no node allocated, main about to
\* run alone.
NoList ==
    /\ head = 0
    /\ tail = 0
    /\ key = [n \in Nodes |-> IndeterminateKey]
    /\ next = [n \in Nodes |-> 0]
    /\ n_lock = [n \in Nodes |-> "free"]
    /\ nalloc = 0
    /\ freed = {}
    /\ phase = "single"
    /\ pc = [t \in ListThreads |-> "idle"]
    /\ karg = [t \in ListThreads |-> 0]
    /\ new_node = [t \in ListThreads |-> 0]
    /\ locked = [t \in ListThreads |-> 0]
    /\ tl = [t \in ListThreads |-> 0]
    /\ old_tail = [t \in ListThreads |-> 0]
    /\ curr = [t \in ListThreads |-> 0]
    /\ result = [t \in ListThreads |-> "none"]
    /\ visited = [t \in ListThreads |-> <<>>]
    /\ appended = <<>>
    /\ succeeded = {}
    /\ ndeleted = 0

\* ------------------------------------------------- counter bank: actions
\* counter_thread's loop body: counter.increment(thread_id).
increment(w) ==
    /\ ctor = "ok"
    /\ wstate[w] = "running"
    /\ wi[w] < target[w]
    /\ thread_counters' = FetchAdd(thread_counters, w)
    /\ wseen' = [wseen EXCEPT ![w][w] = thread_counters'[w]]
    /\ wi' = [wi EXCEPT ![w] = @ + 1]
    /\ sums' = [r \in Readers |->
                  IF rpc[r] = "sum"
                  THEN sums[r] \cup {SumTo(thread_counters', num_threads)}
                  ELSE sums[r]]
    /\ allSums' = allSums \cup {SumTo(thread_counters', num_threads)}
    /\ UNCHANGED <<variant, ctor, num_threads, target, wstate, wcseen>>
    /\ UNCHANGED <<recording, lastTotal, startLast>>
    /\ UNCHANGED <<sharedVars, readerVars, ghostVars, listVars, pairVars>>

\* counter_thread (and shared_counter_thread) returns once its loop has run
\* target_count times.
counter_thread_exit(w) ==
    /\ wstate[w] = "running"
    /\ wi[w] = target[w]
    /\ wstate' = [wstate EXCEPT ![w] = "exited"]
    /\ UNCHANGED <<target, wi, wseen, wcseen>>
    /\ UNCHANGED <<bankVars, sharedVars, readerVars, ghostVars, listVars, pairVars, totalVars>>

\* t.join() in main, without the happens-before edge (a detached worker that
\* main merely waits out).
join_no_sync(w) ==
    /\ "main" \in active
    /\ wstate[w] = "exited"
    /\ rpc["main"] = "idle"
    /\ wstate' = [wstate EXCEPT ![w] = "joined"]
    /\ UNCHANGED <<target, wi, wseen, wcseen>>
    /\ UNCHANGED <<bankVars, sharedVars, readerVars, ghostVars, listVars, pairVars, totalVars>>

\* t.join() in main: everything the worker did happens-before what follows.
join(w) ==
    /\ "main" \in active
    /\ wstate[w] = "exited"
    /\ rpc["main"] = "idle"
    /\ wstate' = [wstate EXCEPT ![w] = "joined"]
    /\ rseen' = [rseen EXCEPT !["main"] =
                    [s \in Slots |-> Max(rseen["main"][s], wseen[w][s])]]
    /\ rcseen' = [rcseen EXCEPT !["main"] = Max(@, wcseen[w])]
    /\ UNCHANGED <<target, wi, wseen, wcseen, active, rpc, ri, rtotal>>
    /\ UNCHANGED <<bankVars, sharedVars, ghostVars, listVars, pairVars, totalVars>>

AllJoined == \A w \in Workers : wstate[w] = "joined"

\* get_approximate_count whose loop starts at slot 1.
get_approximate_count_begin_skip(r) ==
    /\ ctor = "ok"
    /\ r \in active
    /\ rpc[r] = "idle"
    /\ rpc' = [rpc EXCEPT ![r] = "sum"]
    /\ ri' = [ri EXCEPT ![r] = 1]
    /\ rtotal' = [rtotal EXCEPT ![r] = 0]
    /\ call' = [call EXCEPT ![r] =
                  [startTrue |-> SumTo(thread_counters, num_threads),
                   startSeen |-> SumTo(rseen[r], num_threads)]]
    /\ startLast' = [startLast EXCEPT ![r] =
                       IF recording THEN LastReturned ELSE @]
    /\ sums' = [sums EXCEPT ![r] = {SumTo(thread_counters, num_threads)}]
    /\ UNCHANGED <<active, rseen, rcseen, prevSlot>>
    /\ UNCHANGED <<recording, lastTotal, allSums>>
    /\ UNCHANGED <<bankVars, sharedVars, workerVars, listVars, pairVars>>

\* get_approximate_count, entry: int total = 0; i = 0.
get_approximate_count_begin(r) ==
    /\ ctor = "ok"
    /\ r \in active
    /\ rpc[r] = "idle"
    /\ rpc' = [rpc EXCEPT ![r] = "sum"]
    /\ ri' = [ri EXCEPT ![r] = 0]
    /\ rtotal' = [rtotal EXCEPT ![r] = 0]
    /\ call' = [call EXCEPT ![r] =
                  [startTrue |-> SumTo(thread_counters, num_threads),
                   startSeen |-> SumTo(rseen[r], num_threads)]]
    /\ startLast' = [startLast EXCEPT ![r] =
                       IF recording THEN LastReturned ELSE @]
    /\ sums' = [sums EXCEPT ![r] = {SumTo(thread_counters, num_threads)}]
    /\ UNCHANGED <<active, rseen, rcseen, prevSlot>>
    /\ UNCHANGED <<recording, lastTotal, allSums>>
    /\ UNCHANGED <<bankVars, sharedVars, workerVars, listVars, pairVars>>

\* The loop's turn with a load that may return any value the slot has had,
\* older ones than the reader has already seen included.
get_approximate_count_load_incoherent(r) ==
    /\ rpc[r] = "sum"
    /\ ri[r] < num_threads
    /\ \E v \in 0 .. thread_counters[ri[r]] :
          /\ rtotal' = [rtotal EXCEPT ![r] = @ + v]
          /\ rseen' = [rseen EXCEPT ![r][ri[r]] = v]
    /\ ri' = [ri EXCEPT ![r] = @ + 1]
    /\ UNCHANGED <<active, rcseen, rpc>>
    /\ UNCHANGED <<bankVars, sharedVars, workerVars, ghostVars, listVars, pairVars, totalVars>>

\* The loop's turn adding the loaded value twice.
get_approximate_count_load_twice(r) ==
    /\ rpc[r] = "sum"
    /\ ri[r] < num_threads
    /\ \E v \in LoadRelaxed(rseen[r][ri[r]], thread_counters[ri[r]]) :
          /\ rtotal' = [rtotal EXCEPT ![r] = @ + v + v]
          /\ rseen' = [rseen EXCEPT ![r][ri[r]] = v]
    /\ ri' = [ri EXCEPT ![r] = @ + 1]
    /\ UNCHANGED <<active, rcseen, rpc>>
    /\ UNCHANGED <<bankVars, sharedVars, workerVars, ghostVars, listVars, pairVars, totalVars>>

\* get_approximate_count, one turn of the loop:
\* total += thread_counters[i]->load(relaxed).
get_approximate_count_load(r) ==
    /\ rpc[r] = "sum"
    /\ ri[r] < num_threads
    /\ \E v \in LoadRelaxed(rseen[r][ri[r]], thread_counters[ri[r]]) :
          /\ rtotal' = [rtotal EXCEPT ![r] = @ + v]
          /\ rseen' = [rseen EXCEPT ![r][ri[r]] = v]
    /\ ri' = [ri EXCEPT ![r] = @ + 1]
    /\ UNCHANGED <<active, rcseen, rpc>>
    /\ UNCHANGED <<bankVars, sharedVars, workerVars, ghostVars, listVars, pairVars, totalVars>>

\* The reader stands at `return total;` of get_approximate_count.
AtTotalReturn(r) == rpc[r] = "sum" /\ ri[r] >= num_threads

\* get_approximate_count, return total.
get_approximate_count_return(r) ==
    /\ AtTotalReturn(r)
    /\ rpc' = [rpc EXCEPT ![r] = "idle"]
    /\ ri' = [ri EXCEPT ![r] = 0]
    /\ rtotal' = [rtotal EXCEPT ![r] = 0]
    /\ call' = [call EXCEPT ![r] = NoCall]
    /\ lastTotal' = [lastTotal EXCEPT ![r] =
                       IF recording THEN Max(@, rtotal[r]) ELSE @]
    /\ sums' = [sums EXCEPT ![r] = {}]
    /\ UNCHANGED <<active, rseen, rcseen, prevSlot>>
    /\ UNCHANGED <<recording, startLast, allSums>>
    /\ UNCHANGED <<bankVars, sharedVars, workerVars, listVars, pairVars>>

\* get_thread_count(thread_id), entry.
get_thread_count_begin(r, s) ==
    /\ ctor = "ok"
    /\ r \in active
    /\ rpc[r] = "idle"
    /\ s \in Slots
    /\ rpc' = [rpc EXCEPT ![r] = "slot"]
    /\ ri' = [ri EXCEPT ![r] = s]
    /\ call' = [call EXCEPT ![r] =
                  [startTrue |-> thread_counters[s], startSeen |-> rseen[r][s]]]
    /\ UNCHANGED <<active, rseen, rcseen, rtotal, prevSlot>>
    /\ UNCHANGED <<bankVars, sharedVars, workerVars, listVars, pairVars, totalVars>>

\* get_thread_count that loads slot 0 whatever its thread_id.
get_thread_count_load_slot0(r) ==
    /\ rpc[r] = "slot"
    /\ \E v \in LoadRelaxed(rseen[r][0], thread_counters[0]) :
          /\ rtotal' = [rtotal EXCEPT ![r] = v]
          /\ rseen' = [rseen EXCEPT ![r][0] = v]
    /\ rpc' = [rpc EXCEPT ![r] = "slot_ret"]
    /\ UNCHANGED <<active, rcseen, ri>>
    /\ UNCHANGED <<bankVars, sharedVars, workerVars, ghostVars, listVars, pairVars, totalVars>>

\* get_thread_count: thread_counters[thread_id]->load(relaxed).
get_thread_count_load(r) ==
    /\ rpc[r] = "slot"
    /\ \E v \in LoadRelaxed(rseen[r][ri[r]], thread_counters[ri[r]]) :
          /\ rtotal' = [rtotal EXCEPT ![r] = v]
          /\ rseen' = [rseen EXCEPT ![r][ri[r]] = v]
    /\ rpc' = [rpc EXCEPT ![r] = "slot_ret"]
    /\ UNCHANGED <<active, rcseen, ri>>
    /\ UNCHANGED <<bankVars, sharedVars, workerVars, ghostVars, listVars, pairVars, totalVars>>

\* The reader stands at the return of get_thread_count with the loaded value.
AtSlotReturn(r) == rpc[r] = "slot_ret"

\* get_thread_count returns the loaded value.
get_thread_count_return(r) ==
    /\ AtSlotReturn(r)
    /\ rpc' = [rpc EXCEPT ![r] = "idle"]
    /\ prevSlot' = [prevSlot EXCEPT ![r] = [slot |-> ri[r], val |-> rtotal[r]]]
    /\ ri' = [ri EXCEPT ![r] = 0]
    /\ rtotal' = [rtotal EXCEPT ![r] = 0]
    /\ call' = [call EXCEPT ![r] = NoCall]
    /\ UNCHANGED <<active, rseen, rcseen>>
    /\ UNCHANGED <<bankVars, sharedVars, workerVars, listVars, pairVars, totalVars>>

\* ------------------------------------------ counter bank: specifications
\* The state main builds for n workers: ApproximateConcurrentCounter
\* counter(n) and one counter_thread per slot, each about to start its loop.
InitWorkers(n) ==
    /\ variant = "vector"
    /\ ctor = "ok"
    /\ num_threads = n
    /\ thread_counters = [s \in 0 .. (n - 1) |-> 0]
    /\ counter = 0
    /\ wi = [w \in 0 .. (n - 1) |-> 0]
    /\ wstate = [w \in 0 .. (n - 1) |-> "running"]
    /\ wseen = [w \in 0 .. (n - 1) |-> [s \in 0 .. (n - 1) |-> 0]]
    /\ wcseen = [w \in 0 .. (n - 1) |-> 0]
    /\ rseen = [r \in Readers |-> [s \in 0 .. (n - 1) |-> 0]]
    /\ rcseen = [r \in Readers |-> 0]
    /\ rpc = [r \in Readers |-> "idle"]
    /\ ri = [r \in Readers |-> 0]
    /\ rtotal = [r \in Readers |-> 0]
    /\ call = [r \in Readers |-> NoCall]
    /\ prevSlot = [r \in Readers |-> NoSlotRead]
    /\ NoPair
    /\ NoList

\* main is the only thread that reads, and the totals it returns are not kept.
InitThreads(n) ==
    /\ InitWorkers(n)
    /\ active = {"main"}
    /\ NoTotals(FALSE)

\* SpecMain: main as written.  It joins every worker and only then calls
\* get_approximate_count and get_thread_count; worker i counts to its own
\* target k_i.
InitMain ==
    \E n \in 1 .. NumWorkers :
        /\ InitThreads(n)
        /\ target \in [0 .. (n - 1) -> 0 .. MaxTarget]

NextMain ==
    \/ \E w \in Workers : increment(w)
    \/ \E w \in Workers : counter_thread_exit(w)
    \/ \E w \in Workers : join(w)
    \/ AllJoined /\ get_approximate_count_begin("main")
    \/ get_approximate_count_load("main")
    \/ get_approximate_count_return("main")
    \/ \E s \in Slots : AllJoined /\ get_thread_count_begin("main", s)
    \/ get_thread_count_load("main")
    \/ get_thread_count_return("main")

SpecMain == InitMain /\ [][NextMain]_vars

\* SpecBank: the bank under concurrent reads.  Every worker counts to the
\* same target, as main's COUNT_TARGET, and the reading thread calls the two
\* reads at any time, before, between and after its joins.
InitBank ==
    \E n \in 1 .. NumWorkers, k \in 0 .. MaxTarget :
        /\ InitThreads(n)
        /\ target = [w \in 0 .. (n - 1) |-> k]

NextBank ==
    \/ \E w \in Workers : increment(w)
    \/ \E w \in Workers : counter_thread_exit(w)
    \/ \E w \in Workers : join(w)
    \/ \E r \in Readers : get_approximate_count_begin(r)
    \/ \E r \in Readers : get_approximate_count_load(r)
    \/ \E r \in Readers : get_approximate_count_return(r)
    \/ \E r \in Readers, s \in Slots : get_thread_count_begin(r, s)
    \/ \E r \in Readers : get_thread_count_load(r)
    \/ \E r \in Readers : get_thread_count_return(r)

SpecBank == InitBank /\ [][NextBank]_vars

\* ------------------------------------------------ counter bank: claims
\* C1: a get_approximate_count call made after all increments have completed
\* (main has joined every worker) returns exactly the sum of the k_i, and
\* get_thread_count(i) returns exactly k_i, for every capacity and every
\* interleaving of the workers.
C1_ReadsAfterJoinExact ==
    AllJoined =>
        /\ AtTotalReturn("main") => rtotal["main"] = SumTo(target, num_threads)
        /\ AtSlotReturn("main") => rtotal["main"] = target[ri["main"]]

\* C1's case: main returns the total of workers that counted to different
\* targets.
C1_Witness ==
    /\ AllJoined
    /\ AtTotalReturn("main")
    /\ num_threads >= 2
    /\ target[0] < target[1]
    /\ rtotal["main"] = target[0] + target[1]

\* C3 as claimed: the total returned is at least the number of increments
\* performed when the call began and at most the number performed when it
\* returns.
C3_TotalCountsAllCompleted ==
    \A r \in active :
        AtTotalReturn(r) =>
            /\ call[r].startTrue <= rtotal[r]
            /\ rtotal[r] <= SumTo(thread_counters, num_threads)

\* C3 amended: the total returned is at least the number of increments that
\* happened-before the call or that the caller had already observed when the
\* call began, and at most the number performed when it returns.
C3_TotalCountsAllSeen ==
    \A r \in active :
        AtTotalReturn(r) =>
            /\ call[r].startSeen <= rtotal[r]
            /\ rtotal[r] <= SumTo(thread_counters, num_threads)

\* C3's case: a total that ran beside increments, counted more than the
\* caller knew at the start and missed increments already performed.
C3_Witness ==
    \E r \in active :
        /\ AtTotalReturn(r)
        /\ 0 < call[r].startSeen
        /\ call[r].startSeen < rtotal[r]
        /\ rtotal[r] < SumTo(thread_counters, num_threads)
        /\ ~AllJoined

\* C4 as claimed: a slot read is never smaller than the reader's previous
\* read of the slot, never smaller than the number of increment(i) calls
\* performed when the read began, and never larger than the number issued.
C4_SlotReadCountsAllCompleted ==
    \A r \in active :
        AtSlotReturn(r) =>
            /\ prevSlot[r].slot = ri[r] => prevSlot[r].val <= rtotal[r]
            /\ call[r].startTrue <= rtotal[r]
            /\ rtotal[r] <= wi[ri[r]]

\* C4 amended: a slot read is never smaller than the reader's previous read
\* of the slot, never smaller than the number of increment(i) calls that
\* happened-before the read or that the reader had already observed, and
\* never larger than the number issued.
C4_SlotReadMonotone ==
    \A r \in active :
        AtSlotReturn(r) =>
            /\ prevSlot[r].slot = ri[r] => prevSlot[r].val <= rtotal[r]
            /\ call[r].startSeen <= rtotal[r]
            /\ rtotal[r] <= wi[ri[r]]

\* C4's case: the second of two successive reads of a slot returns more than
\* the first while the slot's worker is still counting.
C4_Witness ==
    \E r \in active :
        /\ AtSlotReturn(r)
        /\ prevSlot[r].slot = ri[r]
        /\ prevSlot[r].val < rtotal[r]
        /\ rtotal[r] < target[ri[r]]
        /\ wstate[ri[r]] = "running"

\* ---------------------------------------------------------- SharedCounter
\* An increment written as counter.store(counter.load() + 1): the load may
\* return the newest value the thread has seen, not the newest value.
SharedCounter_increment_load_store(w) ==
    /\ wstate[w] = "running"
    /\ wi[w] < target[w]
    /\ counter' = wcseen[w] + 1
    /\ wcseen' = [wcseen EXCEPT ![w] = counter']
    /\ wi' = [wi EXCEPT ![w] = @ + 1]
    /\ UNCHANGED <<target, wstate, wseen>>
    /\ UNCHANGED <<bankVars, readerVars, ghostVars, listVars, pairVars, totalVars>>

\* shared_counter_thread's loop body: counter.increment(), that is
\* counter.fetch_add(1, relaxed), one atomic step on the newest value.
SharedCounter_increment(w) ==
    /\ wstate[w] = "running"
    /\ wi[w] < target[w]
    /\ counter' = counter + 1
    /\ wcseen' = [wcseen EXCEPT ![w] = counter']
    /\ wi' = [wi EXCEPT ![w] = @ + 1]
    /\ UNCHANGED <<target, wstate, wseen>>
    /\ UNCHANGED <<bankVars, readerVars, ghostVars, listVars, pairVars, totalVars>>

\* get_count: counter.load(relaxed).
SharedCounter_get_count_load(r) ==
    /\ r \in active
    /\ rpc[r] = "idle"
    /\ \E v \in LoadRelaxed(rcseen[r], counter) :
          /\ rtotal' = [rtotal EXCEPT ![r] = v]
          /\ rcseen' = [rcseen EXCEPT ![r] = v]
    /\ rpc' = [rpc EXCEPT ![r] = "count_ret"]
    /\ UNCHANGED <<active, rseen, ri>>
    /\ UNCHANGED <<bankVars, sharedVars, workerVars, ghostVars, listVars, pairVars, totalVars>>

\* The reader stands at the return of get_count with the loaded value.
AtCountReturn(r) == rpc[r] = "count_ret"

\* get_count returns the loaded value.
SharedCounter_get_count_return(r) ==
    /\ AtCountReturn(r)
    /\ rpc' = [rpc EXCEPT ![r] = "idle"]
    /\ rtotal' = [rtotal EXCEPT ![r] = 0]
    /\ UNCHANGED <<active, rseen, rcseen, ri>>
    /\ UNCHANGED <<bankVars, sharedVars, workerVars, ghostVars, listVars, pairVars, totalVars>>

\* SpecShared: the third block of main, with get_count also called while the
\* shared_counter_threads run.  One worker is the sequential case.
InitShared ==
    \E n \in 1 .. NumWorkers :
        /\ InitThreads(n)
        /\ target \in [0 .. (n - 1) -> 0 .. MaxTarget]

NextShared ==
    \/ \E w \in Workers : SharedCounter_increment(w)
    \/ \E w \in Workers : counter_thread_exit(w)
    \/ \E w \in Workers : join(w)
    \/ SharedCounter_get_count_load("main")
    \/ SharedCounter_get_count_return("main")

SpecShared == InitShared /\ [][NextShared]_vars

\* C5: get_count, called after M increment() calls have completed (main has
\* joined the workers that made them), returns exactly M, whether one worker
\* made them in sequence or several workers interleaved them on the one
\* counter.
C5_SharedCountExact ==
    (AllJoined /\ AtCountReturn("main")) =>
        rtotal["main"] = SumTo(target, num_threads)

\* C5's case: two workers, whose increments interleaved (each saw the other's
\* in the counter's value), have been joined and get_count returns.
C5_Witness ==
    /\ AllJoined
    /\ AtCountReturn("main")
    /\ num_threads >= 2
    /\ target[0] = MaxTarget
    /\ target[1] = MaxTarget
    /\ wcseen[0] < counter
    /\ rtotal["main"] = 2 * MaxTarget

\* --------------------------------------------------------- constructors
\* ApproximateConcurrentCounter(int threads): num_threads(threads), then one
\* make_unique<atomic<int>>(0) per slot.
ApproximateConcurrentCounter_ctor(threads) ==
    /\ ctor = "pending"
    /\ variant' = "vector"
    /\ num_threads' = threads
    /\ thread_counters' = [s \in 0 .. (threads - 1) |-> 0]
    /\ ctor' = "ok"
    /\ rseen' = [r \in Readers |-> [s \in 0 .. (threads - 1) |-> 0]]
    /\ UNCHANGED <<active, rcseen, rpc, ri, rtotal>>
    /\ UNCHANGED <<sharedVars, workerVars, ghostVars, listVars, pairVars, totalVars>>

\* The array constructor with its test written threads >= MAX_THREADS.
ApproximateConcurrentCounterArray_ctor_ge(threads) ==
    /\ ctor = "pending"
    /\ variant' = "array"
    /\ num_threads' = threads
    /\ IF threads >= MAX_THREADS
       THEN /\ ctor' = "invalid_argument"
            /\ UNCHANGED <<thread_counters, rseen>>
       ELSE /\ ctor' = "ok"
            /\ thread_counters' = [s \in 0 .. (MAX_THREADS - 1) |->
                                     IF s < threads THEN 0 ELSE "indeterminate"]
            /\ rseen' = [r \in Readers |-> [s \in 0 .. (threads - 1) |-> 0]]
    /\ UNCHANGED <<active, rcseen, rpc, ri, rtotal>>
    /\ UNCHANGED <<sharedVars, workerVars, ghostVars, listVars, pairVars, totalVars>>

\* ApproximateConcurrentCounterArray(int threads): num_threads(threads); throws
\* std::invalid_argument when threads > MAX_THREADS, else stores 0 in the
\* first `threads` of its MAX_THREADS atomics and leaves the rest as they are.
ApproximateConcurrentCounterArray_ctor(threads) ==
    /\ ctor = "pending"
    /\ variant' = "array"
    /\ num_threads' = threads
    /\ IF threads > MAX_THREADS
       THEN /\ ctor' = "invalid_argument"
            /\ UNCHANGED <<thread_counters, rseen>>
       ELSE /\ ctor' = "ok"
            /\ thread_counters' = [s \in 0 .. (MAX_THREADS - 1) |->
                                     IF s < threads THEN 0 ELSE "indeterminate"]
            /\ rseen' = [r \in Readers |-> [s \in 0 .. (threads - 1) |-> 0]]
    /\ UNCHANGED <<active, rcseen, rpc, ri, rtotal>>
    /\ UNCHANGED <<sharedVars, workerVars, ghostVars, listVars, pairVars, totalVars>>

\* SpecCtor: a thread constructs one of the two banks with some `threads`
\* and, when it has a bank, reads it before any worker is started.
NoCounters ==
    /\ variant = "none"
    /\ ctor = "pending"
    /\ num_threads = 0
    /\ thread_counters = <<>>
    /\ counter = 0
    /\ target = <<>>
    /\ wi = <<>>
    /\ wstate = <<>>
    /\ wseen = <<>>
    /\ wcseen = <<>>
    /\ active = {"main"}
    /\ rseen = [r \in Readers |-> <<>>]
    /\ rcseen = [r \in Readers |-> 0]
    /\ rpc = [r \in Readers |-> "idle"]
    /\ ri = [r \in Readers |-> 0]
    /\ rtotal = [r \in Readers |-> 0]
    /\ call = [r \in Readers |-> NoCall]
    /\ prevSlot = [r \in Readers |-> NoSlotRead]
    /\ NoPair
    /\ NoTotals(FALSE)

InitCtor == NoCounters /\ NoList

NextCtor ==
    \/ \E threads \in 1 .. MaxThreadsArg : ApproximateConcurrentCounter_ctor(threads)
    \/ \E threads \in 1 .. MaxThreadsArg : ApproximateConcurrentCounterArray_ctor(threads)
    \/ get_approximate_count_begin("main")
    \/ get_approximate_count_load("main")
    \/ get_approximate_count_return("main")
    \/ \E s \in Slots : get_thread_count_begin("main", s)
    \/ get_thread_count_load("main")
    \/ get_thread_count_return("main")

SpecCtor == InitCtor /\ [][NextCtor]_vars

\* C6: the array-backed bank constructed with more than 16 threads fails with
\* std::invalid_argument and leaves no bank to use; the array-backed bank
\* with 1..16 threads and the vector-backed bank with any threads >= 1 are
\* constructed with every slot 0..threads-1 zero, every get_thread_count
\* returning zero and get_approximate_count returning zero.
C6_Construction ==
    ctor # "pending" =>
        IF variant = "array" /\ num_threads > 16
        THEN /\ ctor = "invalid_argument"
             /\ thread_counters = <<>>
             /\ rpc["main"] = "idle"
        ELSE /\ ctor = "ok"
             /\ \A s \in Slots : thread_counters[s] = 0
             /\ AtSlotReturn("main") => rtotal["main"] = 0
             /\ rpc["main"] = "sum" => rtotal["main"] = 0

\* C6's cases: the array-backed bank refused at 17 threads, and the
\* array-backed bank of 16 threads whose total has been summed over all 16.
C6_Witness ==
    variant = "array" /\ num_threads = 17 /\ ctor = "invalid_argument"

C6_WitnessAccepted ==
    /\ variant = "array"
    /\ num_threads = 16
    /\ ctor = "ok"
    /\ AtTotalReturn("main")
    /\ rtotal["main"] = 0

\* ------------------------------------------------------ List: helpers
\* n_lock.lock() on node n by thread t returns once the mutex is free.
CanLock(n) == n_lock[n] = "free"
Lock(t, n) == [n_lock EXCEPT ![n] = t]

\* The values of n_lock after thread t calls n_lock.unlock() on node n.  A
\* mutex t owns is released.  Unlocking a mutex the caller does not own is
\* undefined: an implementation that checks the owner leaves it as it is,
\* one that does not (a plain pthread mutex) releases it.
Unlock(t, n) ==
    IF n_lock[n] = t
    THEN {[n_lock EXCEPT ![n] = "free"]}
    ELSE {n_lock, [n_lock EXCEPT ![n] = "free"]}

RECURSIVE ChainFrom(_, _)
\* The nodes reached from n by next links, in order (at most `fuel` of them).
ChainFrom(n, fuel) ==
    IF n = 0 \/ fuel = 0 THEN <<>>
    ELSE <<n>> \o ChainFrom(next[n], fuel - 1)

Chain == ChainFrom(head, MaxNodes)
ChainSet == {Chain[i] : i \in 1 .. Len(Chain)}
ChainKeys == [i \in 1 .. Len(Chain) |-> key[Chain[i]]]

\* ------------------------------------------------------- List::insert
\* Line 21, new node_t succeeds: a node with an indeterminate key, a null
\* next and a free n_lock.  (Plain operator new never returns nullptr, so
\* the test of line 22 is false here.)
insert_new(t, k) ==
    /\ pc[t] = "idle"
    /\ nalloc < MaxNodes
    /\ nalloc' = nalloc + 1
    /\ new_node' = [new_node EXCEPT ![t] = nalloc + 1]
    /\ karg' = [karg EXCEPT ![t] = k]
    /\ result' = [result EXCEPT ![t] = "none"]
    /\ pc' = [pc EXCEPT ![t] = "init"]
    /\ UNCHANGED <<head, tail, key, next, n_lock, freed>>
    /\ UNCHANGED <<phase, locked, tl, old_tail, curr>>
    /\ UNCHANGED <<listGhost, counterVars>>

\* Line 21, new node_t fails: operator new throws std::bad_alloc, which
\* leaves insert at once; lines 22-24 (return -1) are not reached.
insert_new_fails(t, k) ==
    /\ pc[t] = "idle"
    /\ new_node' = [new_node EXCEPT ![t] = 0]
    /\ karg' = [karg EXCEPT ![t] = k]
    /\ result' = [result EXCEPT ![t] = "bad_alloc"]
    /\ UNCHANGED <<phase, pc, locked, tl, old_tail, curr>>
    /\ UNCHANGED <<listMem, listGhost, counterVars>>

\* Lines 26-27: new_node->key = key; new_node->next = nullptr.
insert_init(t) ==
    /\ pc[t] = "init"
    /\ key' = [key EXCEPT ![new_node[t]] = karg[t]]
    /\ next' = [next EXCEPT ![new_node[t]] = 0]
    /\ pc' = [pc EXCEPT ![t] = "check"]
    /\ UNCHANGED <<head, tail, n_lock, nalloc, freed>>
    /\ UNCHANGED <<phase, karg, new_node, locked, tl, old_tail, curr, result>>
    /\ UNCHANGED <<listGhost, counterVars>>

\* Line 30: if (tail == nullptr).
insert_check(t) ==
    /\ pc[t] = "check"
    /\ pc' = [pc EXCEPT ![t] = IF tail = 0 THEN "first" ELSE "read_tail"]
    /\ UNCHANGED <<phase, karg, new_node, locked, tl, old_tail, curr, result>>
    /\ UNCHANGED <<listMem, listGhost, counterVars>>

\* Line 31, head = tail = new_node: two plain stores, in either order.
insert_first_store(t) ==
    /\ pc[t] = "first"
    /\ \/ /\ tail' = new_node[t]
          /\ pc' = [pc EXCEPT ![t] = "first_head"]
          /\ UNCHANGED head
       \/ /\ head' = new_node[t]
          /\ pc' = [pc EXCEPT ![t] = "first_tail"]
          /\ UNCHANGED tail
    /\ UNCHANGED <<key, next, n_lock, nalloc, freed>>
    /\ UNCHANGED <<phase, karg, new_node, locked, tl, old_tail, curr, result>>
    /\ UNCHANGED <<listGhost, counterVars>>

\* The first insert without its second store: of head and tail only the
\* one stored first names the new node.
insert_first_return_one_store(t) ==
    /\ pc[t] \in {"first_head", "first_tail"}
    /\ pc' = [pc EXCEPT ![t] = "idle"]
    /\ result' = [result EXCEPT ![t] = "0"]
    /\ appended' = Append(appended, karg[t])
    /\ succeeded' = succeeded \cup {new_node[t]}
    /\ UNCHANGED <<head, tail, key, next, n_lock, nalloc, freed>>
    /\ UNCHANGED <<phase, karg, new_node, locked, tl, old_tail, curr>>
    /\ UNCHANGED <<visited, ndeleted, counterVars>>

\* Lines 31-32: the second store, and return 0.
insert_first_return(t) ==
    /\ pc[t] \in {"first_head", "first_tail"}
    /\ IF pc[t] = "first_head"
       THEN head' = new_node[t] /\ UNCHANGED tail
       ELSE tail' = new_node[t] /\ UNCHANGED head
    /\ pc' = [pc EXCEPT ![t] = "idle"]
    /\ result' = [result EXCEPT ![t] = "0"]
    /\ appended' = Append(appended, karg[t])
    /\ succeeded' = succeeded \cup {new_node[t]}
    /\ UNCHANGED <<key, next, n_lock, nalloc, freed>>
    /\ UNCHANGED <<phase, karg, new_node, locked, tl, old_tail, curr>>
    /\ UNCHANGED <<visited, ndeleted, counterVars>>

\* Line 36, the operand of tail->n_lock.lock(): tail is read.
insert_read_tail(t) ==
    /\ pc[t] = "read_tail"
    /\ locked' = [locked EXCEPT ![t] = tail]
    /\ pc' = [pc EXCEPT ![t] = "lock"]
    /\ UNCHANGED <<phase, karg, new_node, tl, old_tail, curr, result>>
    /\ UNCHANGED <<listMem, listGhost, counterVars>>

\* Line 36: lock() on the node read returns.
insert_lock(t) ==
    /\ pc[t] = "lock"
    /\ CanLock(locked[t])
    /\ n_lock' = Lock(t, locked[t])
    /\ pc' = [pc EXCEPT ![t] = "read_link"]
    /\ UNCHANGED <<head, tail, key, next, nalloc, freed>>
    /\ UNCHANGED <<phase, karg, new_node, locked, tl, old_tail, curr, result>>
    /\ UNCHANGED <<listGhost, counterVars>>

\* Line 37, the operand of tail->next = new_node: tail is read again.
insert_read_link(t) ==
    /\ pc[t] = "read_link"
    /\ tl' = [tl EXCEPT ![t] = tail]
    /\ pc' = [pc EXCEPT ![t] = "link"]
    /\ UNCHANGED <<phase, karg, new_node, locked, old_tail, curr, result>>
    /\ UNCHANGED <<listMem, listGhost, counterVars>>

\* Line 37: the store to next.
insert_link(t) ==
    /\ pc[t] = "link"
    /\ next' = [next EXCEPT ![tl[t]] = new_node[t]]
    /\ pc' = [pc EXCEPT ![t] = "read_old"]
    /\ UNCHANGED <<head, tail, key, n_lock, nalloc, freed>>
    /\ UNCHANGED <<phase, karg, new_node, locked, tl, old_tail, curr, result>>
    /\ UNCHANGED <<listGhost, counterVars>>

\* Line 38: node_t *old_tail = tail.
insert_read_old(t) ==
    /\ pc[t] = "read_old"
    /\ old_tail' = [old_tail EXCEPT ![t] = tail]
    /\ pc' = [pc EXCEPT ![t] = "publish"]
    /\ UNCHANGED <<phase, karg, new_node, locked, tl, curr, result>>
    /\ UNCHANGED <<listMem, listGhost, counterVars>>

\* insert without line 39: tail keeps pointing at the old tail.
insert_publish_skip(t) ==
    /\ pc[t] = "publish"
    /\ pc' = [pc EXCEPT ![t] = "unlock"]
    /\ UNCHANGED <<phase, karg, new_node, locked, tl, old_tail, curr, result>>
    /\ UNCHANGED <<listMem, listGhost, counterVars>>

\* Line 39: tail = new_node.
insert_publish(t) ==
    /\ pc[t] = "publish"
    /\ tail' = new_node[t]
    /\ pc' = [pc EXCEPT ![t] = "unlock"]
    /\ UNCHANGED <<head, key, next, n_lock, nalloc, freed>>
    /\ UNCHANGED <<phase, karg, new_node, locked, tl, old_tail, curr, result>>
    /\ UNCHANGED <<listGhost, counterVars>>

\* Lines 40-42: old_tail->n_lock.unlock(); return 0.
insert_unlock(t) ==
    /\ pc[t] = "unlock"
    /\ n_lock' \in Unlock(t, old_tail[t])
    /\ pc' = [pc EXCEPT ![t] = "idle"]
    /\ result' = [result EXCEPT ![t] = "0"]
    /\ appended' = Append(appended, karg[t])
    /\ succeeded' = succeeded \cup {new_node[t]}
    /\ UNCHANGED <<head, tail, key, next, nalloc, freed>>
    /\ UNCHANGED <<phase, karg, new_node, locked, tl, old_tail, curr>>
    /\ UNCHANGED <<visited, ndeleted, counterVars>>

\* ------------------------------------------------------ List::traverse
\* Line 47 and the first test of line 48: curr = head.
traverse_begin(t) ==
    /\ pc[t] = "idle"
    /\ curr' = [curr EXCEPT ![t] = head]
    /\ visited' = [visited EXCEPT ![t] = <<>>]
    /\ pc' = [pc EXCEPT ![t] = IF head = 0 THEN "t_ret" ELSE "t_lock"]
    /\ UNCHANGED <<phase, karg, new_node, locked, tl, old_tail, result>>
    /\ UNCHANGED <<appended, succeeded, ndeleted>>
    /\ UNCHANGED <<listMem, counterVars>>

\* Line 49: curr->n_lock.lock().
traverse_lock(t) ==
    /\ pc[t] = "t_lock"
    /\ CanLock(curr[t])
    /\ n_lock' = Lock(t, curr[t])
    /\ locked' = [locked EXCEPT ![t] = curr[t]]
    /\ pc' = [pc EXCEPT ![t] = "t_visit"]
    /\ UNCHANGED <<head, tail, key, next, nalloc, freed>>
    /\ UNCHANGED <<phase, karg, new_node, tl, old_tail, curr, result>>
    /\ UNCHANGED <<listGhost, counterVars>>

\* Line 50: std::cout << curr->key.
traverse_visit(t) ==
    /\ pc[t] = "t_visit"
    /\ visited' = [visited EXCEPT ![t] = Append(@, key[curr[t]])]
    /\ pc' = [pc EXCEPT ![t] = "t_unlock"]
    /\ UNCHANGED <<phase, karg, new_node, locked, tl, old_tail, curr, result>>
    /\ UNCHANGED <<appended, succeeded, ndeleted>>
    /\ UNCHANGED <<listMem, counterVars>>

\* Line 51: curr->n_lock.unlock().
traverse_unlock(t) ==
    /\ pc[t] = "t_unlock"
    /\ n_lock' \in Unlock(t, curr[t])
    /\ pc' = [pc EXCEPT ![t] = "t_next"]
    /\ UNCHANGED <<head, tail, key, next, nalloc, freed>>
    /\ UNCHANGED <<phase, karg, new_node, locked, tl, old_tail, curr, result>>
    /\ UNCHANGED <<listGhost, counterVars>>

\* Line 52 and the test of line 48: curr = curr->next.
traverse_next(t) ==
    /\ pc[t] = "t_next"
    /\ curr' = [curr EXCEPT ![t] = next[curr[t]]]
    /\ pc' = [pc EXCEPT ![t] = IF next[curr[t]] = 0 THEN "t_ret" ELSE "t_lock"]
    /\ UNCHANGED <<phase, karg, new_node, locked, tl, old_tail, result>>
    /\ UNCHANGED <<listMem, listGhost, counterVars>>

\* traverse returns.
traverse_return(t) ==
    /\ pc[t] = "t_ret"
    /\ pc' = [pc EXCEPT ![t] = "idle"]
    /\ UNCHANGED <<phase, karg, new_node, locked, tl, old_tail, curr, result>>
    /\ UNCHANGED <<listMem, listGhost, counterVars>>

\* --------------------------------------------------------- List::~List
\* The list goes out of scope in the thread that owns it, with no other
\* thread left: the destructor starts.
dtor_begin ==
    /\ phase \in {"single", "joined"}
    /\ pc["main"] = "idle"
    /\ phase' = "destroying"
    /\ UNCHANGED <<pc, karg, new_node, locked, tl, old_tail, curr, result>>
    /\ UNCHANGED <<listMem, listGhost, counterVars>>

\* Lines 60-64, one turn: temp = head; head = head->next; delete temp.
dtor_step ==
    /\ phase = "destroying"
    /\ head # 0
    /\ head' = next[head]
    /\ freed' = freed \cup {head}
    /\ ndeleted' = ndeleted + 1
    /\ UNCHANGED <<tail, key, next, n_lock, nalloc>>
    /\ UNCHANGED <<visited, appended, succeeded>>
    /\ UNCHANGED <<listThr, counterVars>>

\* Line 60, head == nullptr: the destructor returns.
dtor_end ==
    /\ phase = "destroying"
    /\ head = 0
    /\ phase' = "destroyed"
    /\ UNCHANGED <<pc, karg, new_node, locked, tl, old_tail, curr, result>>
    /\ UNCHANGED <<listMem, listGhost, counterVars>>

\* ------------------------------------------------- the list's threads
\* main starts the other threads, after its own first insert has returned.
start_threads ==
    /\ phase = "single"
    /\ pc["main"] = "idle"
    /\ head # 0
    /\ phase' = "started"
    /\ UNCHANGED <<pc, karg, new_node, locked, tl, old_tail, curr, result>>
    /\ UNCHANGED <<listMem, listGhost, counterVars>>

\* main starts the other threads on the list it has just constructed,
\* without a first insert of its own.
start_threads_empty ==
    /\ phase = "single"
    /\ pc["main"] = "idle"
    /\ head = 0
    /\ tail = 0
    /\ phase' = "started"
    /\ UNCHANGED <<pc, karg, new_node, locked, tl, old_tail, curr, result>>
    /\ UNCHANGED <<listMem, listGhost, counterVars>>

\* A started thread returns from its thread function.
thread_exit(t) ==
    /\ phase = "started"
    /\ pc[t] = "idle"
    /\ pc' = [pc EXCEPT ![t] = "exited"]
    /\ UNCHANGED <<phase, karg, new_node, locked, tl, old_tail, curr, result>>
    /\ UNCHANGED <<listMem, listGhost, counterVars>>

\* main has joined every thread it started.
join_threads ==
    /\ phase = "started"
    /\ \A t \in Appenders \cup Traversers : pc[t] = "exited"
    /\ phase' = "joined"
    /\ UNCHANGED <<pc, karg, new_node, locked, tl, old_tail, curr, result>>
    /\ UNCHANGED <<listMem, listGhost, counterVars>>

\* One step inside insert by thread t.
insert_step(t) ==
    \/ insert_init(t)
    \/ insert_check(t)
    \/ insert_first_store(t)
    \/ insert_first_return(t)
    \/ insert_read_tail(t)
    \/ insert_lock(t)
    \/ insert_read_link(t)
    \/ insert_link(t)
    \/ insert_read_old(t)
    \/ insert_publish(t)
    \/ insert_unlock(t)

\* One step inside traverse by thread t.
traverse_step(t) ==
    \/ traverse_lock(t)
    \/ traverse_visit(t)
    \/ traverse_unlock(t)
    \/ traverse_next(t)
    \/ traverse_return(t)

\* SpecSeq: one thread owns the list, as main of hand_lock_ll.cpp: inserts
\* and traversals follow one another, none overlapping another, and the list
\* is destroyed at the end.
InitList == NoCounters /\ NoList

NextSeq ==
    \/ \E k \in Keys : phase = "single" /\ insert_new("main", k)
    \/ \E k \in Keys : phase = "single" /\ insert_new_fails("main", k)
    \/ insert_step("main")
    \/ phase = "single" /\ traverse_begin("main")
    \/ traverse_step("main")
    \/ dtor_begin
    \/ dtor_step
    \/ dtor_end

SpecSeq == InitList /\ [][NextSeq]_vars

\* SpecList: main makes the first insert alone and starts the other
\* threads; the appenders then insert and the traverser traverses, in any
\* interleaving; main joins them and destroys the list.
KeyOf(t) == IF t = "a1" THEN 6 ELSE 5

NextList ==
    \/ phase = "single" /\ tail = 0 /\ insert_new("main", KeyOf("main"))
    \/ start_threads
    \/ \E t \in Appenders : phase = "started" /\ insert_new(t, KeyOf(t))
    \/ \E t \in Appenders : phase = "started" /\ insert_new_fails(t, KeyOf(t))
    \/ \E t \in ListThreads : insert_step(t)
    \/ \E t \in Traversers : phase = "started" /\ traverse_begin(t)
    \/ \E t \in Traversers : traverse_step(t)
    \/ \E t \in Appenders \cup Traversers : thread_exit(t)
    \/ join_threads
    \/ dtor_begin
    \/ dtor_step
    \/ dtor_end

SpecList == InitList /\ [][NextList]_vars

\* ------------------------------------------------------- List: claims
\* Thread t is between a lock() that returned to it on node n and its
\* matching unlock().
InCriticalSection(t, n) ==
    /\ locked[t] = n
    /\ pc[t] \in {"read_link", "link", "read_old", "publish", "unlock",
                  "t_visit", "t_unlock"}

\* C2: with no two inserts overlapping and no insert beside it, a traverse
\* visits exactly the keys of the inserts that returned 0, each once, in
\* insertion order, and so does every later traverse.
C2_TraverseInInsertionOrder ==
    pc["main"] = "t_ret" => visited["main"] = appended

\* C2's case: insert(5); insert(6); traverse() has visited [5, 6].
C2_Witness ==
    /\ pc["main"] = "t_ret"
    /\ appended = <<5, 6>>
    /\ visited["main"] = <<5, 6>>

\* C7 as claimed: once the list on which N inserts returned 0 is destroyed,
\* exactly those N nodes have been deleted, each once, and head is null.
C7_DestructionReleasesEveryNode ==
    phase = "destroyed" =>
        /\ freed = succeeded
        /\ ndeleted = Cardinality(succeeded)
        /\ head = 0

\* C8 as claimed: a traverse reads a node's key only while its thread holds
\* the node's lock, no other thread holds that lock at that moment, and a
\* key is never written once its node is reachable from head.
C8_KeyReadUnderLock ==
    /\ \A t \in ListThreads :
          pc[t] = "t_visit" =>
              /\ n_lock[curr[t]] = t
              /\ \A u \in ListThreads \ {t} : ~InCriticalSection(u, curr[t])
    /\ \A t \in ListThreads :
          pc[t] = "init" => new_node[t] \notin ChainSet

\* C9 as claimed: an insert whose node creation failed has returned -1 to its
\* caller, holds no lock and has left head, tail and the next links alone;
\* an insert whose node creation succeeded has returned 0.
C9_AllocationFailureReturnsMinusOne ==
    \A t \in ListThreads :
        (pc[t] = "idle" /\ result[t] # "none") =>
            IF new_node[t] = 0
            THEN /\ result[t] = "-1"
                 /\ \A n \in Nodes : n_lock[n] # t
            ELSE result[t] = "0"

\* C10 as claimed: a next link that is not null is never written again.
C10_NextWrittenOnce ==
    [][\A n \in Nodes : next[n] # 0 => next'[n] = next[n]]_vars

\* C11 as claimed: the node an append links behind (line 37) and the node it
\* unlocks (line 40) are the node whose lock its lock() of line 36 took, the
\* append holds that node's lock when it writes the next link, and it holds
\* the lock it releases.
C11_AppendKeepsItsLockedNode ==
    \A t \in ListThreads :
        /\ pc[t] = "link" =>
              /\ tl[t] = locked[t]
              /\ n_lock[tl[t]] = t
        /\ pc[t] = "unlock" =>
              /\ old_tail[t] = locked[t]
              /\ n_lock[old_tail[t]] = t

\* How often key k occurs in the sequence of keys s.
KeyCount(s, k) == Cardinality({i \in 1 .. Len(s) : s[i] = k})

\* C12 as claimed: once every concurrent append has completed, the chain
\* from head holds exactly the nodes of the inserts that returned 0, each
\* once, and its keys are the multiset of the appended keys.
C12_NoAppendLost ==
    phase = "joined" =>
        /\ ChainSet = succeeded
        /\ Len(Chain) = Cardinality(succeeded)
        /\ \A k \in Keys : KeyCount(ChainKeys, k) = KeyCount(appended, k)

\* SpecListFair: finitely many operations under a fair scheduler.  main makes
\* the first insert alone and starts the other threads; each appender calls
\* insert once and the traverser calls traverse once, in any interleaving;
\* main joins them.  A thread inside insert or traverse takes its next step
\* whenever that step is possible again and again: it is never passed over
\* for ever, neither while it runs nor while it waits in lock() for a mutex
\* that keeps being released.  (Every step of insert and traverse changes
\* pc.)
NextListOnce ==
    \/ phase = "single" /\ tail = 0 /\ insert_new("main", KeyOf("main"))
    \/ start_threads
    \/ \E t \in Appenders :
          phase = "started" /\ result[t] = "none" /\ insert_new(t, KeyOf(t))
    \/ \E t \in ListThreads : insert_step(t)
    \/ \E t \in Traversers :
          phase = "started" /\ visited[t] = <<>> /\ traverse_begin(t)
    \/ \E t \in Traversers : traverse_step(t)
    \/ \E t \in Appenders \cup Traversers : thread_exit(t)
    \/ join_threads

ListFairness ==
    \A t \in ListThreads :
        /\ SF_pc(insert_step(t))
        /\ SF_pc(traverse_step(t))

SpecListFair == InitList /\ [][NextListOnce]_vars /\ ListFairness

\* Thread t is inside a call of insert or traverse.
InCall(t) == pc[t] \notin {"idle", "exited"}

\* C13 as claimed: under fair scheduling every insert and every traverse
\* that was called returns.
C13_EveryCallReturns ==
    \A t \in ListThreads : InCall(t) ~> ~InCall(t)

\* A consequence C13 names: a thread outside insert and traverse holds no
\* node lock.
C13_NoLockHeldAfterReturn ==
    \A t \in ListThreads : ~InCall(t) => \A n \in Nodes : n_lock[n] # t

\* s is an initial segment of the sequence u.
IsPrefix(s, u) == Len(s) <= Len(u) /\ \A i \in 1 .. Len(s) : s[i] = u[i]

\* C14 as claimed: the keys a traverse visited while inserts ran beside it
\* are a prefix of the keys of the chain reachable from head once every
\* insert has completed.
C14_TraverseSeesPrefixOfFinalChain ==
    phase = "joined" =>
        \A t \in Traversers : IsPrefix(visited[t], ChainKeys)

\* C15 as claimed: no thread holds more than one node lock, and a traverse
\* holds none when it reads the next link or waits for the next lock.
C15_AtMostOneLockHeld ==
    \A t \in ListThreads :
        /\ Cardinality({n \in Nodes : n_lock[n] = t}) <= 1
        /\ pc[t] \in {"t_next", "t_lock"} => \A n \in Nodes : n_lock[n] # t

\* SpecEmpty: the first insert is not single-threaded.  main starts the
\* appenders on the empty list and they insert in any interleaving.
NextEmpty ==
    \/ start_threads_empty
    \/ \E t \in Appenders : phase = "started" /\ insert_new(t, KeyOf(t))
    \/ \E t \in Appenders : insert_step(t)

SpecEmpty == InitList /\ [][NextEmpty]_vars

\* Thread t is in the branch of line 30 taken when tail was null.
InFirstBranch(t) == pc[t] \in {"first", "first_head", "first_tail"}

\* C16: an insert that found tail null takes and holds no lock, and the
\* first insert on an empty list, when no other insert has started, returns
\* 0 with its node installed as both head and tail and every lock free.
C16_FirstAppendTakesNoLock ==
    /\ \A t \in ListThreads :
          InFirstBranch(t) => \A n \in Nodes : n_lock[n] # t
    /\ \A t \in ListThreads :
          (nalloc = 1 /\ pc[t] = "idle" /\ result[t] = "0") =>
              /\ head = new_node[t]
              /\ tail = new_node[t]
              /\ \A n \in Nodes : n_lock[n] = "free"

\* C16's case: two inserts on the empty list both found tail null, both took
\* the branch without a lock and both returned 0, and the node of one of
\* them is not reachable from head.
C16_Witness ==
    /\ \A t \in Appenders :
          /\ pc[t] = "idle"
          /\ result[t] = "0"
          /\ locked[t] = 0
    /\ nalloc = 2
    /\ \E n \in succeeded : n \notin ChainSet

\* ------------------------------------------- the two banks side by side
\* Largest number of calls made on the two banks in one run.
MaxCalls == 3

\* The members after ApproximateConcurrentCounter(threads): `threads` atomics
\* made by make_unique<std::atomic<int>>(0).
ApproximateConcurrentCounter_members(threads) ==
    [s \in 0 .. (threads - 1) |-> 0]

\* The members after ApproximateConcurrentCounterArray(threads), for threads
\* <= MAX_THREADS: MAX_THREADS atomics, the first `threads` of them stored 0,
\* the others never initialized.
ApproximateConcurrentCounterArray_members(threads) ==
    [s \in 0 .. (MAX_THREADS - 1) |-> IF s < threads THEN 0 ELSE "indeterminate"]

\* The methods as one thread sees them when it makes every call itself: each
\* load returns the newest value, which its own fetch_adds happen-before.
ApproximateConcurrentCounter_increment(counters, thread_id) ==
    FetchAdd(counters, thread_id)

ApproximateConcurrentCounter_get_thread_count(counters, thread_id) ==
    counters[thread_id]

ApproximateConcurrentCounter_get_approximate_count(counters, n) ==
    SumTo(counters, n)

ApproximateConcurrentCounterArray_increment(counters, thread_id) ==
    FetchAdd(counters, thread_id)

ApproximateConcurrentCounterArray_get_thread_count(counters, thread_id) ==
    counters[thread_id]

\* The array bank's total with its loop started at slot 1.
ApproximateConcurrentCounterArray_get_approximate_count_skip(counters, n) ==
    SumTo(counters, n) - counters[0]

ApproximateConcurrentCounterArray_get_approximate_count(counters, n) ==
    SumTo(counters, n)

\* Both banks are constructed with the same `threads`.
side_by_side_ctor(threads) ==
    /\ ctor = "pending"
    /\ variant' = "both"
    /\ num_threads' = threads
    /\ thread_counters' = ApproximateConcurrentCounter_members(threads)
    /\ array_threads' = threads
    /\ IF threads > MAX_THREADS
       THEN /\ ctor' = "invalid_argument"
            /\ UNCHANGED array_counters
       ELSE /\ ctor' = "ok"
            /\ array_counters' = ApproximateConcurrentCounterArray_members(threads)
    /\ UNCHANGED <<ncalls, ret_vector, ret_array>>
    /\ UNCHANGED <<sharedVars, workerVars, readerVars, ghostVars, listVars, totalVars>>

\* increment(thread_id) on both banks, thread_id in range.
side_by_side_increment(thread_id) ==
    /\ ctor = "ok"
    /\ variant = "both"
    /\ ncalls < MaxCalls
    /\ thread_id \in 0 .. (num_threads - 1)
    /\ thread_counters' =
          ApproximateConcurrentCounter_increment(thread_counters, thread_id)
    /\ array_counters' =
          ApproximateConcurrentCounterArray_increment(array_counters, thread_id)
    /\ ncalls' = ncalls + 1
    /\ UNCHANGED <<variant, ctor, num_threads, array_threads>>
    /\ UNCHANGED <<ret_vector, ret_array>>
    /\ UNCHANGED <<sharedVars, workerVars, readerVars, ghostVars, listVars, totalVars>>

\* get_thread_count(thread_id) on both banks, thread_id in range.
side_by_side_get_thread_count(thread_id) ==
    /\ ctor = "ok"
    /\ variant = "both"
    /\ ncalls < MaxCalls
    /\ thread_id \in 0 .. (num_threads - 1)
    /\ ret_vector' =
          ApproximateConcurrentCounter_get_thread_count(thread_counters, thread_id)
    /\ ret_array' =
          ApproximateConcurrentCounterArray_get_thread_count(array_counters, thread_id)
    /\ ncalls' = ncalls + 1
    /\ UNCHANGED <<bankVars, array_counters, array_threads>>
    /\ UNCHANGED <<sharedVars, workerVars, readerVars, ghostVars, listVars, totalVars>>

\* get_approximate_count() on both banks.
side_by_side_get_approximate_count ==
    /\ ctor = "ok"
    /\ variant = "both"
    /\ ncalls < MaxCalls
    /\ ret_vector' =
          ApproximateConcurrentCounter_get_approximate_count(
              thread_counters, num_threads)
    /\ ret_array' =
          ApproximateConcurrentCounterArray_get_approximate_count(
              array_counters, array_threads)
    /\ ncalls' = ncalls + 1
    /\ UNCHANGED <<bankVars, array_counters, array_threads>>
    /\ UNCHANGED <<sharedVars, workerVars, readerVars, ghostVars, listVars, totalVars>>

\* SpecPair: one thread constructs the two banks with the same capacity and
\* makes the same sequence of calls on both.
NextPair ==
    \/ \E threads \in 1 .. MaxThreadsArg : side_by_side_ctor(threads)
    \/ \E id \in 0 .. (MAX_THREADS - 1) : side_by_side_increment(id)
    \/ \E id \in 0 .. (MAX_THREADS - 1) : side_by_side_get_thread_count(id)
    \/ side_by_side_get_approximate_count

SpecPair == InitCtor /\ [][NextPair]_vars

\* C17: for every capacity in 1..16 and every sequence of increment,
\* get_thread_count and get_approximate_count calls with thread ids in range
\* made on both banks, each read returns the same value from the array bank
\* as from the vector bank, and the slots in use hold the same counts.
C17_BanksReturnTheSame ==
    (variant = "both" /\ ctor = "ok") =>
        /\ num_threads \in 1 .. 16
        /\ ret_array = ret_vector
        /\ \A s \in 0 .. (num_threads - 1) : array_counters[s] = thread_counters[s]

\* C17's case: at capacity 16, after increments of the first and the last
\* slot, both totals return 2.
C17_Witness ==
    /\ variant = "both"
    /\ num_threads = 16
    /\ thread_counters[0] = 1
    /\ thread_counters[15] = 1
    /\ ret_vector = 2
    /\ ret_array = 2

\* Thread t is inside insert.
InInsert(t) ==
    pc[t] \in {"init", "check", "first", "first_head", "first_tail",
               "read_tail", "lock", "read_link", "link", "read_old",
               "publish", "unlock"}

\* C19 as claimed: whenever no insert is in progress (and the list is not
\* being destroyed), head is null exactly when tail is, and otherwise tail
\* is reachable from head and is the last node of the chain.
C19_HeadTailConsistent ==
    (phase \in {"single", "started", "joined"}
        /\ \A t \in ListThreads : ~InInsert(t)) =>
        /\ head = 0 <=> tail = 0
        /\ tail # 0 =>
              /\ tail \in ChainSet
              /\ next[tail] = 0
              /\ Chain[Len(Chain)] = tail

\* ------------------------------------------------ totals over time
\* SpecTotals: main as written, joining every worker before it calls
\* get_approximate_count, and beside it a thread that calls
\* get_approximate_count again and again, while the workers count and after,
\* without synchronizing with the workers or with main.  Every worker counts
\* to the same target.
InitTotals ==
    \E n \in 1 .. NumWorkers, k \in 0 .. MaxTarget :
        /\ InitWorkers(n)
        /\ target = [w \in 0 .. (n - 1) |-> k]
        /\ active = Readers
        /\ NoTotals(TRUE)

NextTotals ==
    \/ \E w \in Workers : increment(w)
    \/ \E w \in Workers : counter_thread_exit(w)
    \/ \E w \in Workers : join(w)
    \/ AllJoined /\ get_approximate_count_begin("main")
    \/ get_approximate_count_begin("observer")
    \/ \E r \in Readers : get_approximate_count_load(r)
    \/ \E r \in Readers : get_approximate_count_return(r)

SpecTotals == InitTotals /\ [][NextTotals]_vars

\* C18 as claimed: a total is never smaller than a total, of any caller, that
\* had been returned when its call began.
C18_TotalsNeverDecrease ==
    \A r \in active :
        AtTotalReturn(r) => startLast[r] <= rtotal[r]

\* C18 amended: a total is never smaller than a total the same thread has
\* returned before.
C18_OwnTotalsNeverDecrease ==
    \A r \in active :
        AtTotalReturn(r) => lastTotal[r] <= rtotal[r]

\* C18's case: a thread's later total is larger than its earlier one, and
\* smaller than a total another thread had returned before the call began.
C18_Witness ==
    \E r \in active :
        /\ AtTotalReturn(r)
        /\ 0 < lastTotal[r]
        /\ lastTotal[r] < rtotal[r]
        /\ rtotal[r] < startLast[r]

\* C20 as claimed: the total returned is the sum of all slots at some
\* instant between the call's start and its return.
C20_TotalIsSumDuringCall ==
    \A r \in active :
        AtTotalReturn(r) => rtotal[r] \in sums[r]

\* C20 amended: the total returned is the sum of all slots at some instant
\* that is not later than the call's return and not earlier than the last
\* instant all of whose increments the caller had observed, or had happen
\* before its call; that instant may precede the call's start.
C20_TotalIsSumAtSomeInstant ==
    \A r \in active :
        AtTotalReturn(r) =>
            rtotal[r] \in {x \in allSums : call[r].startSeen <= x}

\* C20's case: with two workers counting, a total equal to the sum of the
\* slots at an instant before the call began, later than what the caller had
\* observed.
C20_Witness ==
    \E r \in active :
        /\ AtTotalReturn(r)
        /\ num_threads >= 2
        /\ call[r].startSeen < rtotal[r]
        /\ rtotal[r] < call[r].startTrue
        /\ rtotal[r] \in allSums
        /\ rtotal[r] \notin sums[r]

=============================================================================
